---- MODULE Spec2Model ----
(***************************************************************************)
(* memhttp: an in-memory net.Listener/dialer (memoryListener) and the      *)
(* Server built on it.  Goroutines are modelled as processes with a        *)
(* program counter; a step is one channel operation, select or call into   *)
(* the net/http engine.  The engine (http.Server) is not part of the       *)
(* package: it is modelled by what it does to the package's state          *)
(* (it calls Accept in a loop, calls the listener's Close on Close and     *)
(* Shutdown, starts the registered callbacks on Shutdown, and returns the  *)
(* errors its documentation names).  Spec starts from a Server made with   *)
(* no options; SpecNew covers New for every option list, SpecHooks the     *)
(* shutdown callbacks, SpecDial cancelled dial contexts, FairSpecListener  *)
(* the listener under fair scheduling.                                     *)
(***************************************************************************)
EXTENDS Integers, Sequences, FiniteSets, TLC

\* ---------------------------------------------------------------- bounds
NumDialers == 2      \* goroutines calling DialContext, one call each
NumAcceptors == 1    \* goroutines calling Accept directly, besides the serve loop
NumCallers == 2      \* goroutines calling Server.Close / Shutdown / Cleanup
NumHooks == 2        \* callbacks handed to RegisterOnShutdown, one call each
MaxOpts == 2         \* length of the option list given to New
MaxNested == 2       \* length of the option list given to WithOptions

Dialers == 1..NumDialers
Acceptors == 1..NumAcceptors
Callers == 1..NumCallers
Hooks == 1..NumHooks
\* net.Pipe() returns a new pipe on every call; a pipe is named after the
\* DialContext call that created it.
Pipes == Dialers

\* ------------------------------------------------------ program constants
\* Faulty variant: serveErr made without a buffer.
ServeErrUnbuffered == Len(<<>>)

\* serveErr: make(chan error, 1)
ServeErrCap == 1

\* Faulty variant: conns made with a buffer, as serveErr is.
ConnsCapBuffered == ServeErrCap

\* conns: make(chan net.Conn), an unbuffered channel
ConnsCap == 0

\* The goroutine started by New runs the engine's serve loop; its Accept
\* calls are those of acceptor 0.
ServeLoop == 0
AcceptCallers == {ServeLoop} \cup Acceptors

\* ------------------------------------------------------------ values
ErrNil == "nil"
ErrListenerClosed == "listener closed"        \* errors.New("listener closed")
ErrServerClosed == "http: Server closed"      \* http.ErrServerClosed
ErrDeadline == "context deadline exceeded"    \* ctx.Err()
ErrOther == "engine failure"                  \* any other error of Serve
ErrCanceled == "context canceled"             \* ctx.Err() of a cancelled ctx

NoConn == [pipe |-> 0, side |-> "none"]

\* net.Pipe(): the two ends of one full-duplex stream
NetPipe(p) == [server |-> [pipe |-> p, side |-> "server"],
               client |-> [pipe |-> p, side |-> "client"]]

Peer(c) == [pipe |-> c.pipe, side |-> IF c.side = "server" THEN "client" ELSE "server"]

\* The connection ends that can exist.
Ends == {NetPipe(p).server : p \in Pipes} \cup {NetPipe(p).client : p \in Pipes}

NoResult == [conn |-> NoConn, err |-> ErrNil]

\* ------------------------------------------------------------- options
\* "WithCleanupTimeout(5 * time.Second)", in seconds
DefaultCleanupTimeout == 5

\* The durations and loggers that callers pass in.
Durations == {1, 9}
Loggers == {"logA", "logB"}
NoLogger == "nil"
NoDuration == 0

\* An Option is the function that apply calls; it is written here as the
\* constructor that made it and the constructor's argument.
Opt(op, d, l, opts) == [op |-> op, d |-> d, l |-> l, opts |-> opts]
WithoutTLS == Opt("WithoutTLS", NoDuration, NoLogger, <<>>)
WithoutHTTP2 == Opt("WithoutHTTP2", NoDuration, NoLogger, <<>>)
WithCleanupTimeout(d) == Opt("WithCleanupTimeout", d, NoLogger, <<>>)
WithErrorLog(l) == Opt("WithErrorLog", NoDuration, l, <<>>)
WithOptions(opts) == Opt("WithOptions", NoDuration, NoLogger, opts)

\* The options callers can build: the four plain ones, and WithOptions of a
\* list of plain ones.
PlainOptions ==
    {WithoutTLS, WithoutHTTP2}
        \cup {WithCleanupTimeout(d) : d \in Durations}
        \cup {WithErrorLog(l) : l \in Loggers}
SeqsUpTo(S, n) == UNION {[1..k -> S] : k \in 0..n}
Options == PlainOptions \cup {WithOptions(os) : os \in SeqsUpTo(PlainOptions, MaxNested)}
OptionLists == SeqsUpTo(Options, MaxOpts)

\* "var cfg config": the zero value
ZeroConfig ==
    [DisableTLS |-> FALSE, DisableHTTP2 |-> FALSE,
     CleanupTimeout |-> NoDuration, ErrorLog |-> NoLogger]

RECURSIVE ApplyAllReversed(_, _)

\* option.apply(cfg): what each constructor's function does to the config;
\* WithOptions applies its options in order.
RECURSIVE Apply(_, _)
RECURSIVE ApplyAll(_, _)
Apply(o, c) ==
    CASE o.op = "WithoutTLS" -> [c EXCEPT !.DisableTLS = TRUE]
      [] o.op = "WithoutHTTP2" -> [c EXCEPT !.DisableHTTP2 = TRUE]
      [] o.op = "WithCleanupTimeout" -> [c EXCEPT !.CleanupTimeout = o.d]
      [] o.op = "WithErrorLog" -> [c EXCEPT !.ErrorLog = o.l]
      [] o.op = "WithOptions" -> ApplyAll(o.opts, c)

\* Faulty variant: the options of a list are applied last to first.
ApplyAllReversed(os, c) ==
    IF os = <<>> THEN c
    ELSE Apply(Head(os), ApplyAllReversed(Tail(os), c))

\* "for _, opt := range opts { opt.apply(cfg) }"
ApplyAll(os, c) ==
    IF os = <<>> THEN c
    ELSE ApplyAll(Tail(os), Apply(Head(os), c))

\* New's config before the caller's options: the zero value with
\* WithCleanupTimeout(5 * time.Second) applied.
DefaultConfig == Apply(WithCleanupTimeout(DefaultCleanupTimeout), ZeroConfig)

\* ------------------------------------------------- certificate and TLS
\* The package's key pair (_cert, _key) as tls.X509KeyPair and
\* x509.ParseCertificate find it: in order, or one of the two fails.
CertInputs == {"ok", "bad key pair", "bad leaf"}
ErrKeyPair == "tls: failed to load key pair"
ErrParseCert == "x509: malformed certificate"
ServerCert == "memhttp certificate"
NoCert == "nil"
NoTLSConfig == [Certificates |-> {}, NextProtos |-> <<>>]
NoServer == [url |-> "", certificate |-> NoCert, disableHTTP2 |-> FALSE,
             cleanupTimeout |-> NoDuration]
NoClientTLS == [RootCAs |-> {}]
NoTransport == [DialContext |-> "nil", DisableCompression |-> FALSE,
                TLSClientConfig |-> NoClientTLS, ForceAttemptHTTP2 |-> FALSE]

VARIABLES
    \* memoryListener
    conns,         \* buffer of l.conns (always empty for an unbuffered channel)
    closed,        \* l.closed has been closed
    onceDone,      \* l.once has run its function
    closeCount,    \* times close(l.closed) was executed (a second one panics)
    \* DialContext calls
    dpc, dpipe, dret, dlate,
    \* Accept calls
    apc, aret, alate,
    \* Server and its engine
    spc,           \* the goroutine of New: "start", "serving", "send", "exited"
    serveRet,      \* what server.Serve returned
    serveErr,      \* buffer of the serveErr channel
    serveWrites,   \* sends on serveErr so far
    inShutdown,    \* the engine's shutting-down flag
    active,        \* pipes whose server end the engine is serving a request on
    \* Server.Close / Shutdown / Cleanup calls
    cpc,           \* "idle", "engine", "listenErr", "done"
    ckind,         \* "Close", "Shutdown" or "Cleanup"
    cctx,          \* the call's context
    clnerr,        \* what memoryListener.Close returned to the engine
    cerr,          \* what the engine's Close or Shutdown returned
    cret,          \* what the call returned
    cgot,          \* what the call received from serveErr
    cafter,        \* the call started after another had drained serveErr and returned
    ctimeout,      \* the timeout of the context that Cleanup made for the call
    \* connections
    open,          \* the connection ends on which Close has not been called
    dctx,          \* per DialContext call: its ctx, "background" or "cancelled"
    \* shutdown callbacks
    hasked,        \* the callbacks passed to RegisterOnShutdown so far, in order
    onShutdown,    \* the engine's list of registered callbacks
    hpend,         \* per callback: goroutines started for it that have not run it yet
    hlog,          \* the callbacks invoked so far, in order
    hsnap,         \* hasked when the first Shutdown or Cleanup call began
    \* New
    npc,           \* "options", "failed" or "built"
    nin,           \* the option list passed to New
    ni,            \* index of the next option to apply
    certIn,        \* what loading the package's certificate will find
    cfg,           \* New's config
    tlsConfig,     \* the engine's TLSConfig
    srv,           \* the *Server that New returned
    nerr,          \* the error that New returned
    tasks,         \* goroutines running server.Serve started so far
    tr,            \* the last result of Transport()
    \* history
    closeReturned, \* some memoryListener.Close call has returned
    delivered,     \* per connection end: how many Accept calls returned it
    drains         \* receives from serveErr so far

lvars == <<conns, closed, onceDone, closeCount>>
dvars == <<dpc, dpipe, dret, dlate>>
avars == <<apc, aret, alate>>
svars == <<spc, serveRet, serveErr, serveWrites, inShutdown, active>>
cvars == <<cpc, ckind, cctx, clnerr, cerr, cret, cgot, cafter, ctimeout>>
hvars == <<closeReturned, delivered, drains>>
kvars == <<hasked, onShutdown, hpend, hlog, hsnap>>
nvars == <<npc, nin, ni, certIn, cfg, tlsConfig, srv, nerr, tasks, tr>>
evars == <<open, dctx, kvars, nvars>>
vars == <<lvars, dvars, avars, svars, cvars, hvars, evars>>

\* The listener that New makes, and the goroutines that will use the
\* Server: nothing has been called yet.
InitCalls ==
    /\ conns = <<>>
    /\ closed = FALSE
    /\ onceDone = FALSE
    /\ closeCount = 0
    /\ dpc = [d \in Dialers |-> "idle"]
    /\ dpipe = [d \in Dialers |-> 0]
    /\ dret = [d \in Dialers |-> NoResult]
    /\ dlate = [d \in Dialers |-> FALSE]
    /\ apc = [a \in AcceptCallers |-> "idle"]
    /\ aret = [a \in AcceptCallers |-> NoResult]
    /\ alate = [a \in AcceptCallers |-> FALSE]
    /\ serveRet = ErrNil
    /\ serveErr = <<>>
    /\ serveWrites = 0
    /\ inShutdown = FALSE
    /\ active = {}
    /\ cpc = [c \in Callers |-> "idle"]
    /\ ckind = [c \in Callers |-> "none"]
    /\ cctx = [c \in Callers |-> "none"]
    /\ clnerr = [c \in Callers |-> "none"]
    /\ cerr = [c \in Callers |-> "none"]
    /\ cret = [c \in Callers |-> ErrNil]
    /\ cgot = [c \in Callers |-> "none"]
    /\ cafter = [c \in Callers |-> FALSE]
    /\ ctimeout = [c \in Callers |-> NoDuration]
    /\ closeReturned = FALSE
    /\ delivered = [e \in Ends |-> 0]
    /\ drains = 0
    /\ open = {}
    /\ dctx = [d \in Dialers |-> "background"]
    /\ hasked = <<>>
    /\ onShutdown = <<>>
    /\ hpend = [h \in Hooks |-> 0]
    /\ hlog = <<>>
    /\ hsnap = <<>>
    /\ tr = NoTransport

\* What New hands to the engine as TLSConfig for config c.
TLSConfigOf(c) ==
    IF c.DisableTLS THEN NoTLSConfig
    ELSE [Certificates |-> {ServerCert},
          NextProtos |-> IF c.DisableHTTP2 THEN <<"http/1.1">> ELSE <<"h2">>]

\* The *Server that New returns for config c.
ServerOf(c) ==
    [url |-> IF c.DisableTLS THEN "http://example.com" ELSE "https://example.com",
     certificate |-> IF c.DisableTLS THEN NoCert ELSE ServerCert,
     disableHTTP2 |-> c.DisableHTTP2,
     cleanupTimeout |-> c.CleanupTimeout]

\* The state after New(handler) has returned a Server: no options, the
\* certificate in order, the goroutine that runs server.Serve started.
Init ==
    /\ InitCalls
    /\ npc = "built"
    /\ nin = <<>>
    /\ ni = 1
    /\ certIn = "ok"
    /\ cfg = DefaultConfig
    /\ tlsConfig = TLSConfigOf(DefaultConfig)
    /\ srv = ServerOf(DefaultConfig)
    /\ nerr = ErrNil
    /\ tasks = 1
    /\ spc = "start"

\* New has been called with some option list and has set up its config
\* (lines 32-33); no goroutine exists yet.
InitNew ==
    /\ InitCalls
    /\ npc = "options"
    /\ nin \in OptionLists
    /\ ni = 1
    /\ certIn \in CertInputs
    /\ cfg = DefaultConfig
    /\ tlsConfig = NoTLSConfig
    /\ srv = NoServer
    /\ nerr = ErrNil
    /\ tasks = 0
    /\ spc = "none"

\* ------------------------------------------------------- memoryListener

\* Faulty variant: DialContext without its closed check.
DialNeverSeesClosed == FALSE

\* DialContext's first select: "case <-l.closed" is ready iff the channel
\* is closed, otherwise the default case runs.
DialSeesClosed == closed

\* Accept's "case <-l.closed" is ready iff the channel is closed.
AcceptSeesClosed == closed

\* Faulty variant: DialContext returns the end it sent.
DialResultServerEnd(p) == [conn |-> NetPipe(p).server, err |-> ErrNil]

\* What DialContext returns after the send: the client end of its pipe.
DialResult(p) == [conn |-> NetPipe(p).client, err |-> ErrNil]

\* What DialContext sends on l.conns: the server end of its pipe.
DialOffer(p) == NetPipe(p).server

\* What Accept returns for a received connection.
AcceptResult(conn) == [conn |-> conn, err |-> ErrNil]

ClosedResult == [conn |-> NoConn, err |-> ErrListenerClosed]

\* Faulty variant: Close without the once, "close(l.closed)" on every call.
OnceDoEveryTime ==
    /\ closed' = TRUE
    /\ onceDone' = TRUE
    /\ closeCount' = closeCount + 1

\* l.once.Do(func() { close(l.closed) }): runs the function unless it ran.
OnceDo ==
    IF onceDone
    THEN UNCHANGED <<closed, onceDone, closeCount>>
    ELSE /\ closed' = TRUE
         /\ onceDone' = TRUE
         /\ closeCount' = closeCount + 1

\* memoryListener.Close returns nil, always.
ListenerCloseResult == ErrNil

\* Faulty variant: the closed signal is a single value sent on l.closed,
\* which one waiting Accept call receives.
CloseWakesOne(pcs) ==
    IF closed \/ \A a \in AcceptCallers : pcs[a] # "select" THEN pcs
    ELSE LET w == CHOOSE a \in AcceptCallers : pcs[a] = "select"
         IN [pcs EXCEPT ![w] = "woken"]

\* close(l.closed) makes the closed case ready in every Accept call that
\* waits in its select: each of them is woken to take that case.  An
\* Accept call that enters its select later finds the channel closed (see
\* AcceptSelect).
CloseWakes(pcs) ==
    [a \in AcceptCallers |->
        IF ~closed /\ pcs[a] = "select" THEN "woken" ELSE pcs[a]]

\* Faulty variant: Close also closes the connections made so far and
\* empties the hand-off channel.
CloseListenerAndConns ==
    /\ OnceDo
    /\ apc' = CloseWakes(apc)
    /\ conns' = <<>>
    /\ open' = {}

\* memoryListener.Close: the once, and nothing else.
CloseListener ==
    /\ OnceDo
    /\ apc' = CloseWakes(apc)
    /\ UNCHANGED <<conns, open>>

\* Faulty variant: DialContext gives up when its ctx is done.
DialHonoursCtx(d) == dctx[d] = "cancelled"

\* The ctx parameter of DialContext is not used: no case of its select
\* waits for ctx.Done().
DialSeesCtxDone(d) == FALSE

CtxResult == [conn |-> NoConn, err |-> ErrCanceled]

\* A DialContext call starts: the closed check, then net.Pipe().
DialCheck(d) ==
    /\ dpc[d] = "idle"
    /\ dlate' = [dlate EXCEPT ![d] = closeReturned]
    /\ IF DialSeesClosed \/ DialSeesCtxDone(d)
       THEN /\ dpc' = [dpc EXCEPT ![d] = "done"]
            /\ dret' = [dret EXCEPT ![d] = IF DialSeesClosed THEN ClosedResult
                                          ELSE CtxResult]
            /\ UNCHANGED <<dpipe, open>>
       ELSE /\ dpipe' = [dpipe EXCEPT ![d] = d]
            /\ dpc' = [dpc EXCEPT ![d] = "send"]
            /\ open' = open \cup {NetPipe(d).server, NetPipe(d).client}
            /\ UNCHANGED dret
    /\ UNCHANGED <<lvars, avars, svars, cvars, hvars, dctx, kvars, nvars>>

\* "l.conns <- server": completes into the buffer while there is room, and
\* otherwise only by handing the value to an Accept call that is waiting in
\* its select (which takes the conns case, whether or not l.closed is also
\* ready: Go chooses among the ready cases of a select at random).
DialSend(d) ==
    /\ dpc[d] = "send"
    /\ dpc' = [dpc EXCEPT ![d] = "sent"]
    /\ IF Len(conns) < ConnsCap
       THEN /\ conns' = Append(conns, DialOffer(dpipe[d]))
            /\ UNCHANGED <<avars, delivered>>
       ELSE \E a \in AcceptCallers :
                /\ apc[a] = "select"
                /\ conns = <<>>
                /\ apc' = [apc EXCEPT ![a] = "done"]
                /\ aret' = [aret EXCEPT ![a] = AcceptResult(DialOffer(dpipe[d]))]
                /\ delivered' = [delivered EXCEPT ![DialOffer(dpipe[d])] = @ + 1]
                /\ UNCHANGED <<conns, alate>>
    /\ UNCHANGED <<closed, onceDone, closeCount, dpipe, dret, dlate,
                   svars, cvars, closeReturned, drains, evars>>

\* "return client, nil"
DialReturn(d) ==
    /\ dpc[d] = "sent"
    /\ dpc' = [dpc EXCEPT ![d] = "done"]
    /\ dret' = [dret EXCEPT ![d] = DialResult(dpipe[d])]
    /\ UNCHANGED <<lvars, dpipe, dlate, avars, svars, cvars, hvars, evars>>

\* The caller of DialContext cancels the ctx it passes, before the call or
\* while the call waits for its hand-off.
CtxCancel(d) ==
    /\ dctx[d] = "background"
    /\ dpc[d] \in {"idle", "send"}
    /\ dctx' = [dctx EXCEPT ![d] = "cancelled"]
    /\ UNCHANGED <<lvars, dvars, avars, svars, cvars, hvars, open, kvars, nvars>>

\* An Accept call by a goroutine other than the serve loop starts.
AcceptStart(a) ==
    /\ apc[a] = "idle"
    /\ apc' = [apc EXCEPT ![a] = "select"]
    /\ alate' = [alate EXCEPT ![a] = closeReturned]
    /\ UNCHANGED <<lvars, dvars, aret, svars, cvars, hvars, evars>>

\* Accept's select, apart from the hand-off of DialSend: a buffered
\* connection is received, or the closed case is taken, by a call that the
\* close woke or by one that finds l.closed closed.
AcceptSelect(a) ==
    /\ apc[a] \in {"select", "woken"}
    /\ \/ /\ apc[a] = "select"
          /\ conns # <<>>
          /\ aret' = [aret EXCEPT ![a] = AcceptResult(Head(conns))]
          /\ delivered' = [delivered EXCEPT ![Head(conns)] = @ + 1]
          /\ conns' = Tail(conns)
       \/ /\ AcceptSeesClosed
          /\ aret' = [aret EXCEPT ![a] = ClosedResult]
          /\ UNCHANGED <<conns, delivered>>
    /\ apc' = [apc EXCEPT ![a] = "done"]
    /\ UNCHANGED <<closed, onceDone, closeCount, dvars, alate,
                   svars, cvars, closeReturned, drains, evars>>

\* ------------------------------------------------- Server and its engine

\* Errors with which server.Serve may return before it accepts anything.
\* net/http promises a non-nil error; listenErr does not rely on that (it
\* tests err != nil), and neither does the model.
ServeFailures == {ErrNil, ErrOther}

\* server.Serve's result when its Accept call fails with err: the engine
\* reports ErrServerClosed once it is shutting down, and err otherwise.
ServeResult(err) == IF inShutdown THEN ErrServerClosed ELSE err

\* The goroutine of New calls server.Serve(lis): the engine fails at once,
\* or enters its loop and calls Accept.
ServeBegin ==
    /\ spc = "start"
    /\ \/ /\ \E e \in ServeFailures : serveRet' = e
          /\ spc' = "send"
          /\ UNCHANGED avars
       \/ /\ spc' = "serving"
          /\ apc' = [apc EXCEPT ![ServeLoop] = "select"]
          /\ alate' = [alate EXCEPT ![ServeLoop] = closeReturned]
          /\ UNCHANGED <<serveRet, aret>>
    /\ UNCHANGED <<lvars, dvars, serveErr, serveWrites, inShutdown, active, cvars,
                   hvars, evars>>

\* The serve loop takes the result of its Accept call: a connection is
\* served and Accept is called again; an error ends Serve.
ServeHandle ==
    /\ spc = "serving"
    /\ apc[ServeLoop] = "done"
    /\ IF aret[ServeLoop].err = ErrNil
       THEN /\ active' = active \cup {aret[ServeLoop].conn.pipe}
            /\ apc' = [apc EXCEPT ![ServeLoop] = "select"]
            /\ alate' = [alate EXCEPT ![ServeLoop] = closeReturned]
            /\ UNCHANGED <<spc, serveRet>>
       ELSE /\ serveRet' = ServeResult(aret[ServeLoop].err)
            /\ spc' = "send"
            /\ UNCHANGED <<active, apc, alate>>
    /\ UNCHANGED <<lvars, dvars, aret, serveErr, serveWrites, inShutdown, cvars,
                   hvars, evars>>

\* "serveErr <- server.Serve(lis)": the send needs room in the buffer.
ServeSend ==
    /\ spc = "send"
    /\ Len(serveErr) < ServeErrCap
    /\ serveErr' = Append(serveErr, serveRet)
    /\ serveWrites' = serveWrites + 1
    /\ spc' = "exited"
    /\ UNCHANGED <<lvars, dvars, avars, serveRet, inShutdown, active, cvars, hvars,
                   evars>>

\* The request served on an accepted connection finishes and the engine
\* closes the connection.
ConnDone(p) ==
    /\ p \in active
    /\ active' = active \ {p}
    /\ open' = open \ {NetPipe(p).server}
    /\ UNCHANGED <<lvars, dvars, avars, spc, serveRet, serveErr, serveWrites,
                   inShutdown, cvars, hvars, dctx, kvars, nvars>>

\* The contexts a call may run with: Close takes none, Shutdown is given
\* one that never expires or one that has expired, Cleanup makes one with
\* the cleanup timeout, which may elapse at any moment.
CallContexts(k) ==
    CASE k = "Close" -> {"none"}
      [] k = "Shutdown" -> {"background", "expired"}
      [] k = "Cleanup" -> {"timeout"}

\* ctx.Done() of call c can be ready.
CtxDone(c) == cctx[c] \in {"expired", "timeout"}

\* Faulty variant: RegisterOnShutdown does not pass the callback on.
RegistrationDropped(l, h) == l

\* "s.server.RegisterOnShutdown(f)": the engine appends f to its list.
Registered(l, h) == Append(l, h)

\* RegisterOnShutdown(f) for callback h; each callback is registered once.
Register(h) ==
    /\ npc = "built"
    /\ \A i \in 1..Len(hasked) : hasked[i] # h
    /\ hasked' = Append(hasked, h)
    /\ onShutdown' = Registered(onShutdown, h)
    /\ UNCHANGED <<lvars, dvars, avars, svars, cvars, hvars, open, dctx,
                   hpend, hlog, hsnap, nvars>>

\* The callbacks for which the engine starts a goroutine ("go f()") in a
\* call of kind k: Shutdown starts one per registered callback, every time
\* it is called; Close starts none.
HooksStarted(k) == IF k = "Close" THEN <<>> ELSE onShutdown

\* How many times x occurs in the sequence q.
Count(x, q) == Cardinality({i \in 1..Len(q) : q[i] = x})

\* A goroutine started for callback h runs it.
HookRun(h) ==
    /\ hpend[h] > 0
    /\ hpend' = [hpend EXCEPT ![h] = @ - 1]
    /\ hlog' = Append(hlog, h)
    /\ UNCHANGED <<lvars, dvars, avars, svars, cvars, hvars, open, dctx,
                   hasked, onShutdown, hsnap, nvars>>

\* The calls that go through the engine's Shutdown.
ShutdownKinds == {"Shutdown", "Cleanup"}

\* Server.Close, Shutdown or Cleanup is called and enters the engine's
\* Close or Shutdown, which marks the engine as shutting down, closes its
\* listener (memoryListener.Close runs and returns) and, in Shutdown,
\* starts the registered callbacks.  Every call is let through to
\* memoryListener.Close, the general case that Close has to handle,
\* whether or not the engine spares it the repeated calls.  Cleanup makes
\* its context with the Server's cleanup timeout.
CallStart(c) ==
    /\ npc = "built"
    /\ cpc[c] = "idle"
    /\ \E k \in {"Close", "Shutdown", "Cleanup"} : \E x \in CallContexts(k) :
          /\ ckind' = [ckind EXCEPT ![c] = k]
          /\ cctx' = [cctx EXCEPT ![c] = x]
          /\ ctimeout' = [ctimeout EXCEPT ![c] =
                             IF k = "Cleanup" THEN srv.cleanupTimeout ELSE NoDuration]
          /\ hpend' = [h \in Hooks |-> hpend[h] + Count(h, HooksStarted(k))]
          /\ hsnap' = IF k \in ShutdownKinds
                         /\ \A o \in Callers : ckind[o] \notin ShutdownKinds
                      THEN hasked ELSE hsnap
    /\ inShutdown' = TRUE
    /\ CloseListener
    /\ clnerr' = [clnerr EXCEPT ![c] = ListenerCloseResult]
    /\ closeReturned' = TRUE
    /\ cafter' = [cafter EXCEPT ![c] = \E o \in Callers : cpc[o] = "done" /\ cgot[o] # "none"]
    /\ cpc' = [cpc EXCEPT ![c] = "engine"]
    /\ UNCHANGED <<dvars, aret, alate, spc, serveRet, serveErr, serveWrites,
                   active, cerr, cret, cgot, delivered, drains,
                   dctx, hasked, onShutdown, hlog, nvars>>

\* What the engine's Close or Shutdown returns to call c: Close returns the
\* listener's close error; Shutdown returns it once no request is in
\* flight, and ctx.Err() if the context is done first.
EngineResult(c) ==
    IF ckind[c] = "Close" \/ active = {} THEN clnerr[c] ELSE ErrDeadline

\* Faulty variant: the engine's error is dropped and listenErr is called anyway.
IgnoresEngineErr(err) == FALSE

\* Faulty variant: "return s.server.Close()", listenErr is never called.
ReturnsEngineResult(err) == TRUE

\* "if err := s.server.Close(); err != nil { return err }", and the same in
\* Shutdown.
ReturnsEngineErr(err) == err # ErrNil

\* The rest of the engine's Close (every connection is closed) or Shutdown
\* (wait until no request is in flight or the context is done), and the
\* test of its result.
EngineFinish(c) ==
    /\ cpc[c] = "engine"
    /\ ckind[c] # "Close" => (active = {} \/ CtxDone(c))
    /\ active' = IF ckind[c] = "Close" THEN {} ELSE active
    /\ open' = IF ckind[c] = "Close"
               THEN open \ {NetPipe(p).server : p \in active} ELSE open
    /\ cerr' = [cerr EXCEPT ![c] = EngineResult(c)]
    /\ IF ReturnsEngineErr(EngineResult(c))
       THEN /\ cpc' = [cpc EXCEPT ![c] = "done"]
            /\ cret' = [cret EXCEPT ![c] = EngineResult(c)]
       ELSE /\ cpc' = [cpc EXCEPT ![c] = "listenErr"]
            /\ UNCHANGED cret
    /\ UNCHANGED <<lvars, dvars, avars, spc, serveRet, serveErr, serveWrites,
                   inShutdown, ckind, cctx, clnerr, cgot, cafter, ctimeout, hvars,
                   dctx, kvars, nvars>>

\* Faulty variant: listenErr returns whatever it received.
ListenErrUnfiltered(e) == e

\* listenErr's filter of the received error.
ListenErrResult(e) ==
    IF e # ErrNil /\ e # ErrServerClosed THEN e ELSE ErrNil

\* Faulty variant: listenErr reads the error and leaves it in the channel.
AfterPeek(buf) == buf

\* What "<-s.serveErr" leaves in the channel's buffer.
AfterReceive(buf) == Tail(buf)

\* listenErr: receive from serveErr (blocks while it is empty), filter,
\* return.
ListenErr(c) ==
    /\ cpc[c] = "listenErr"
    /\ serveErr # <<>>
    /\ cgot' = [cgot EXCEPT ![c] = Head(serveErr)]
    /\ cret' = [cret EXCEPT ![c] = ListenErrResult(Head(serveErr))]
    /\ serveErr' = AfterReceive(serveErr)
    /\ drains' = drains + 1
    /\ cpc' = [cpc EXCEPT ![c] = "done"]
    /\ UNCHANGED <<lvars, dvars, avars, spc, serveRet, serveWrites, inShutdown,
                   active, ckind, cctx, clnerr, cerr, cafter, ctimeout, closeReturned,
                   delivered, evars>>

\* ------------------------------------------------------------------ New

\* "for _, opt := range opts { opt.apply(&cfg) }": one round of the loop.
NewOption ==
    /\ npc = "options"
    /\ ni <= Len(nin)
    /\ cfg' = Apply(nin[ni], cfg)
    /\ ni' = ni + 1
    /\ UNCHANGED <<lvars, dvars, avars, svars, cvars, hvars, open, dctx, kvars,
                   npc, nin, certIn, tlsConfig, srv, nerr, tasks, tr>>

\* The error with which New gives up, if it does: without DisableTLS the
\* key pair is loaded and its leaf parsed, and either can fail.
NewError(c, cert) ==
    IF c.DisableTLS THEN ErrNil
    ELSE CASE cert = "bad key pair" -> ErrKeyPair
           [] cert = "bad leaf" -> ErrParseCert
           [] OTHER -> ErrNil

\* Faulty variant: New starts the goroutine before it looks at the
\* certificate.
StartsServeAlways(err) == 1

\* The goroutines that New starts: "go func() { serveErr <- server.Serve(lis) }()"
\* comes after the returns of the TLS block.
StartsServe(err) == IF err = ErrNil THEN 1 ELSE 0

\* The rest of New, after the options: listener, engine, TLS, the serve
\* goroutine, the Server.
NewFinish ==
    /\ npc = "options"
    /\ ni > Len(nin)
    /\ nerr' = NewError(cfg, certIn)
    /\ tasks' = tasks + StartsServe(NewError(cfg, certIn))
    /\ spc' = IF StartsServe(NewError(cfg, certIn)) > 0 THEN "start" ELSE spc
    /\ IF NewError(cfg, certIn) = ErrNil
       THEN /\ npc' = "built"
            /\ tlsConfig' = TLSConfigOf(cfg)
            /\ srv' = ServerOf(cfg)
       ELSE /\ npc' = "failed"
            /\ UNCHANGED <<tlsConfig, srv>>
    /\ UNCHANGED <<lvars, dvars, avars, serveRet, serveErr, serveWrites, inShutdown,
                   active, cvars, hvars, open, dctx, kvars, nin, ni, certIn, cfg, tr>>

\* Faulty variant: the transport always tries HTTP/2.
TransportForcesHTTP2(s) ==
    [DialContext |-> "memoryListener.DialContext", DisableCompression |-> TRUE,
     TLSClientConfig |-> IF s.certificate # NoCert
                         THEN [RootCAs |-> {s.certificate}] ELSE NoClientTLS,
     ForceAttemptHTTP2 |-> TRUE]

\* Server.Transport(): dials the listener; with a certificate, trusts it
\* and tries HTTP/2 unless the Server was made without it.
TransportOf(s) ==
    [DialContext |-> "memoryListener.DialContext", DisableCompression |-> TRUE,
     TLSClientConfig |-> IF s.certificate # NoCert
                         THEN [RootCAs |-> {s.certificate}] ELSE NoClientTLS,
     ForceAttemptHTTP2 |-> IF s.certificate # NoCert THEN ~s.disableHTTP2 ELSE FALSE]

\* The protocols the client's transport is ready to speak, and those the
\* engine accepts: without TLS there is no negotiation and both speak
\* HTTP/1.1; with TLS the transport offers "h2" only if told to try
\* HTTP/2, and the engine accepts what its TLSConfig names.
ClientOffers(t) ==
    IF t.ForceAttemptHTTP2 THEN {"h2", "http/1.1"} ELSE {"http/1.1"}
ServerAccepts(sc) ==
    IF sc = NoTLSConfig THEN {"http/1.1"}
    ELSE {sc.NextProtos[i] : i \in 1..Len(sc.NextProtos)}

\* A call of Transport() (Client() wraps its result).
Transport ==
    /\ npc = "built"
    /\ tr = NoTransport
    /\ tr' = TransportOf(srv)
    /\ UNCHANGED <<lvars, dvars, avars, svars, cvars, hvars, open, dctx, kvars,
                   npc, nin, ni, certIn, cfg, tlsConfig, srv, nerr, tasks>>

\* ------------------------------------------------------- specification
Next ==
    \/ \E d \in Dialers : DialCheck(d)
    \/ \E d \in Dialers : DialSend(d)
    \/ \E d \in Dialers : DialReturn(d)
    \/ \E a \in Acceptors : AcceptStart(a)
    \/ \E a \in AcceptCallers : AcceptSelect(a)
    \/ ServeBegin
    \/ ServeHandle
    \/ ServeSend
    \/ \E p \in Pipes : ConnDone(p)
    \/ \E c \in Callers : CallStart(c)
    \/ \E c \in Callers : EngineFinish(c)
    \/ \E c \in Callers : ListenErr(c)

Spec == Init /\ [][Next]_vars

\* The same with contexts that the callers of DialContext cancel.
NextDial ==
    \/ Next
    \/ \E d \in Dialers : CtxCancel(d)

SpecDial == Init /\ [][NextDial]_vars

\* The Server's side alone, nobody dials: the serve loop, the calls of
\* Close, Shutdown and Cleanup.
NextServer ==
    \/ \E a \in AcceptCallers : AcceptSelect(a)
    \/ ServeBegin
    \/ ServeHandle
    \/ ServeSend
    \/ \E c \in Callers : CallStart(c)
    \/ \E c \in Callers : EngineFinish(c)
    \/ \E c \in Callers : ListenErr(c)

\* The Server's side with shutdown callbacks.
NextHooks ==
    \/ NextServer
    \/ \E h \in Hooks : Register(h)
    \/ \E h \in Hooks : HookRun(h)

SpecHooks == Init /\ [][NextHooks]_vars

\* New from its call on, for every option list, and the first use of what
\* it made: the serve goroutine's first step, Transport, and the start of
\* the Close, Shutdown and Cleanup calls.
NextNew ==
    \/ NewOption
    \/ NewFinish
    \/ Transport
    \/ ServeBegin
    \/ \E c \in Callers : CallStart(c)

SpecNew == InitNew /\ [][NextNew]_vars

\* Every started goroutine keeps being scheduled: each step of a call in
\* progress is taken if it stays possible.  Whether a call is made at all
\* (DialCheck from idle, AcceptStart, CallStart) and when a request finishes
\* (ConnDone) is up to the callers.
Fairness ==
    /\ \A d \in Dialers : WF_vars(DialSend(d)) /\ WF_vars(DialReturn(d))
    /\ \A a \in AcceptCallers : WF_vars(AcceptSelect(a))
    /\ WF_vars(ServeBegin) /\ WF_vars(ServeHandle) /\ WF_vars(ServeSend)
    /\ \A c \in Callers : /\ WF_vars(EngineFinish(c))
                          /\ WF_vars(ListenErr(c))

FairSpec == Spec /\ Fairness

\* The listener's side: the dials, the Accept calls of the serve loop and of
\* others, and the calls that make the engine close the listener; what a
\* Close or Shutdown call does after that is left out.
NextListener ==
    \/ \E d \in Dialers : DialCheck(d)
    \/ \E d \in Dialers : DialSend(d)
    \/ \E d \in Dialers : DialReturn(d)
    \/ \E a \in Acceptors : AcceptStart(a)
    \/ \E a \in AcceptCallers : AcceptSelect(a)
    \/ ServeBegin
    \/ ServeHandle
    \/ ServeSend
    \/ \E p \in Pipes : ConnDone(p)
    \/ \E c \in Callers : CallStart(c)

FairnessListener ==
    /\ \A d \in Dialers : WF_vars(DialSend(d)) /\ WF_vars(DialReturn(d))
    /\ \A a \in AcceptCallers : WF_vars(AcceptSelect(a))
    /\ WF_vars(ServeBegin) /\ WF_vars(ServeHandle) /\ WF_vars(ServeSend)

FairSpecListener == Init /\ [][NextListener]_vars /\ FairnessListener

\* ------------------------------------------------------------ properties

\* DialContext calls whose send on l.conns has completed.
DialsSent == {d \in Dialers : dpc[d] \in {"sent", "done"} /\ dpipe[d] # 0}

\* DialContext calls that have returned a connection.
DialsReturned == {d \in Dialers : dpc[d] = "done" /\ dret[d].err = ErrNil}

RECURSIVE SumOver(_, _)
SumOver(f, S) ==
    IF S = {} THEN 0
    ELSE LET x == CHOOSE y \in S : TRUE IN f[x] + SumOver(f, S \ {x})

\* Accept calls that have completed with a connection.
Deliveries == SumOver(delivered, Ends)

\* C1: the dials whose hand-off has happened are matched one to one by
\* Accept calls that completed with a connection: there are as many of the
\* one as of the other, no connection end is returned by two Accept calls,
\* the server end of every dial handed off was returned by exactly one, two
\* Accept calls never hold the same connection, and the connection a dialer
\* gets is a client end whose peer is the server end delivered for that dial.
C1_DialsPairWithAccepts ==
    /\ Deliveries = Cardinality(DialsSent)
    /\ \A e \in Ends : delivered[e] <= 1
    /\ \A d \in DialsSent : delivered[NetPipe(dpipe[d]).server] = 1
    /\ \A a, b \in AcceptCallers :
          (a # b /\ apc[a] = "done" /\ apc[b] = "done"
             /\ aret[a].err = ErrNil /\ aret[b].err = ErrNil)
          => aret[a].conn # aret[b].conn
    /\ \A a \in AcceptCallers :
          (apc[a] = "done" /\ aret[a].err = ErrNil)
          => aret[a].conn.side = "server" /\ delivered[aret[a].conn] = 1
    /\ \A d \in DialsReturned :
          /\ dret[d].conn.side = "client"
          /\ dret[d].conn.pipe = dpipe[d]
          /\ delivered[Peer(dret[d].conn)] = 1
          /\ \A o \in DialsReturned : o # d => dret[o].conn # dret[d].conn

\* Every dialer has its connection and as many Accept calls completed.
C1_Witness ==
    /\ DialsReturned = Dialers
    /\ Deliveries = NumDialers

\* C2: a dial does not complete before an Accept has received its server
\* end: the dials that returned a connection are at most the connections
\* Accept took off the channel, each has had its own server end taken, and
\* the channel never holds a connection.
C2_NoDialBeforeAccept ==
    /\ Cardinality(DialsReturned) <= Deliveries
    /\ \A d \in DialsSent : delivered[NetPipe(dpipe[d]).server] >= 1
    /\ conns = <<>>

\* One dial has returned its connection while another is still blocked in
\* its send, no Accept call waiting.
C2_Witness ==
    \E d, o \in Dialers :
        /\ d \in DialsReturned
        /\ dpc[o] = "send"
        /\ \A a \in AcceptCallers : apc[a] # "select"

\* C3: an Accept call that starts after a Close call of the listener has
\* returned fails with "listener closed" and returns no connection, also
\* while a DialContext call that began before the Close is blocked in its
\* send.
C3_AcceptAfterCloseFails ==
    \A a \in AcceptCallers :
        (alate[a] /\ apc[a] = "done") => aret[a] = ClosedResult

\* C4: a DialContext call that starts after a Close call of the listener
\* has returned fails at once with "listener closed": it is never blocked
\* in the send, makes no pipe and offers nothing on l.conns.
C4_DialAfterCloseFails ==
    \A d \in Dialers :
        dlate[d] =>
            /\ dpc[d] = "done"
            /\ dret[d] = ClosedResult
            /\ dpipe[d] = 0
            /\ \A e \in {NetPipe(d).server, NetPipe(d).client} : delivered[e] = 0
            /\ conns = <<>>

\* A DialContext call was made after Close had returned.
C4_Witness ==
    \E d \in Dialers : dlate[d] /\ dpc[d] = "done" /\ closeReturned

\* No Accept call is waiting and none will be made: the serve loop has
\* ended on the close and every other accepting goroutine has had its call.
NoAcceptToCome ==
    /\ spc \in {"send", "exited"}
    /\ serveRet = ErrServerClosed
    /\ \A a \in AcceptCallers : apc[a] # "select"
    /\ \A a \in Acceptors : apc[a] = "done"

\* C5: Close unblocks a DialContext call that waits for the hand-off: once
\* the listener is closed, a call in its send can go on even if no Accept
\* call ever arrives, so it does not stay blocked for ever.
C5_CloseUnblocksDial ==
    \A d \in Dialers :
        (closed /\ dpc[d] = "send" /\ NoAcceptToCome) => ENABLED DialSend(d)

\* Close calls of the listener that have returned.
CloseCalls == {c \in Callers : cpc[c] # "idle"}

\* C6: any number of Close calls of the listener, one after another or
\* concurrent, return nil; the closed channel is closed once, never twice;
\* and the listener after k >= 1 calls is the listener after one call.
C6_CloseIdempotent ==
    /\ closeCount <= 1
    /\ \A c \in Callers : cpc[c] = "idle" => ENABLED CallStart(c)
    /\ \A c \in CloseCalls : clnerr[c] = ErrNil
    /\ CloseCalls = {} => (~closed /\ ~onceDone /\ closeCount = 0)
    /\ CloseCalls # {} => (closed /\ onceDone /\ closeCount = 1)
    /\ closeReturned <=> CloseCalls # {}

\* Close has been called as many times as there are callers.
C6_Witness ==
    /\ CloseCalls = Callers
    /\ NumCallers >= 2

\* C7: a Close or Shutdown call made after another call has drained
\* serveErr (of the ErrServerClosed of a serve loop that ended on the
\* shutdown) and returned is not blocked in listenErr: it finds serveErr
\* empty and goes on to return, and what it returns from there is nil.
C7_SecondCallReturnsNil ==
    \A c \in Callers :
        (cafter[c] /\ serveRet = ErrServerClosed) =>
            /\ cpc[c] = "listenErr" => ENABLED ListenErr(c)
            /\ (cpc[c] = "done" /\ cerr[c] = ErrNil) => cret[c] = ErrNil

\* The terminal error of the serve loop, as Close and Shutdown report it.
Reported(e) == IF e = ErrNil \/ e = ErrServerClosed THEN ErrNil ELSE e

\* C8: a Close or Shutdown call whose engine step succeeded returns nil if
\* the terminal error of the serve loop is nil or ErrServerClosed, and that
\* error otherwise; Shutdown with a context that never expires, on a server
\* whose serve loop ends with ErrServerClosed, returns nil.
C8_ReturnsFilteredServeError ==
    \A c \in Callers :
        /\ (cpc[c] = "done" /\ cerr[c] = ErrNil) =>
              /\ spc = "exited"
              /\ cgot[c] = serveRet
              /\ cret[c] = Reported(serveRet)
        /\ (cpc[c] = "done" /\ ckind[c] = "Shutdown" /\ cctx[c] = "background"
              /\ serveRet = ErrServerClosed) => cret[c] = ErrNil

\* Shutdown with a context that never expires has returned nil for a serve
\* loop that ended with ErrServerClosed.
C8_Witness ==
    \E c \in Callers :
        /\ cpc[c] = "done" /\ ckind[c] = "Shutdown" /\ cctx[c] = "background"
        /\ cerr[c] = ErrNil /\ cgot[c] = ErrServerClosed /\ cret[c] = ErrNil

\* Calls that returned a terminal error of the serve loop.
Surfaced == {c \in Callers : cpc[c] = "done" /\ cret[c] \notin {ErrNil, ErrDeadline}}

\* C9: a terminal error of the serve loop other than ErrServerClosed is
\* returned by at most one of the Close, Shutdown and Cleanup calls, and
\* that call is the one that received it from serveErr, before any other.
C9_ServeErrorSurfacesOnce ==
    /\ Cardinality(Surfaced) <= 1
    /\ \A c \in Surfaced :
          /\ cgot[c] = serveRet
          /\ cret[c] = serveRet
          /\ \A o \in Callers : o # c => cgot[o] = "none"

\* One call has returned the serve loop's error while every other call is
\* past its engine step too.
C9_Witness ==
    /\ Surfaced # {}
    /\ \A c \in Callers : cpc[c] \in {"listenErr", "done"}
    /\ \E c \in Callers : c \notin Surfaced /\ ckind[c] \in {"Shutdown", "Cleanup"}

\* C10: Shutdown called with an expired context while requests are in
\* flight is not blocked in the engine, and returns the deadline error as
\* the engine gave it, without receiving from serveErr.
C10_ExpiredShutdownReturnsDeadline ==
    /\ [](\A c \in Callers :
             (cpc[c] = "engine" /\ ckind[c] = "Shutdown" /\ cctx[c] = "expired")
             => ENABLED EngineFinish(c))
    /\ [][\A c \in Callers :
             (/\ ckind[c] = "Shutdown" /\ cctx[c] = "expired"
              /\ active # {}
              /\ EngineFinish(c))
             => /\ cpc'[c] = "done"
                /\ cret'[c] = ErrDeadline
                /\ cgot'[c] = "none"
                /\ UNCHANGED <<serveErr, drains>>]_vars

\* Such a call has returned the deadline error, requests still in flight
\* and the serve loop's error still in serveErr.
C10_Witness ==
    \E c \in Callers :
        /\ cpc[c] = "done" /\ ckind[c] = "Shutdown" /\ cctx[c] = "expired"
        /\ cret[c] = ErrDeadline
        /\ active # {}
        /\ serveErr # <<>>

\* Shutdown and Cleanup calls that have begun.
ShutdownCalls == Cardinality({c \in Callers : ckind[c] \in ShutdownKinds})

\* The sequence p is a prefix of q.
IsPrefix(p, q) == Len(p) <= Len(q) /\ SubSeq(q, 1, Len(p)) = p

\* Times callback h has been started: invoked, or about to be.
Started(h) == Count(h, hlog) + hpend[h]

\* C11: as documented, callbacks 1 and 2 registered in that order before the
\* first Shutdown are invoked in that order and once each, whatever Shutdown
\* calls follow: the invocations so far are always a prefix of <<1, 2>>.
C11_CallbacksOnceInOrder ==
    hsnap = <<1, 2>> => IsPrefix(hlog, <<1, 2>>)

\* C11: as the code has it, every Shutdown or Cleanup call starts each callback
\* registered before it exactly once, on a goroutine of its own that is free
\* to run: a callback registered before the first such call has been
\* started once per call, no callback more often than that, and Close
\* starts none.  The order in which started callbacks run is not fixed.
C11_CallbacksOncePerShutdown ==
    \A h \in Hooks :
        /\ Started(h) <= ShutdownCalls
        /\ Count(h, hsnap) = 1 => Started(h) = ShutdownCalls
        /\ hpend[h] > 0 => ENABLED HookRun(h)

\* One Shutdown call after both registrations, and callback 2 has run
\* before callback 1.
C11_Witness ==
    /\ hsnap = <<1, 2>>
    /\ ShutdownCalls = 1
    /\ hlog = <<2, 1>>

\* C12: New either fails or starts serving, never both.  Until New is past
\* its options nothing is returned or started; if loading or parsing the
\* certificate fails, New returns an error and no Server, and no goroutine
\* running Serve has been started or can take a step; otherwise, and always
\* when TLS is disabled, New returns a Server and no error, and exactly one
\* such goroutine has been started.
C12_FailsOrServes ==
    /\ npc = "options" => (tasks = 0 /\ spc = "none" /\ srv = NoServer /\ nerr = ErrNil)
    /\ npc # "options" =>
          (npc = "failed" <=> (~cfg.DisableTLS /\ certIn # "ok"))
    /\ npc = "failed" =>
          /\ nerr \in {ErrKeyPair, ErrParseCert}
          /\ srv = NoServer
          /\ tasks = 0
          /\ spc = "none"
          /\ ~ENABLED ServeBegin
    /\ npc = "built" =>
          /\ nerr = ErrNil
          /\ srv # NoServer
          /\ tasks = 1
          /\ spc # "none"

\* New has failed on a certificate whose leaf does not parse.
C12_Witness ==
    /\ npc = "failed"
    /\ certIn = "bad leaf"
    /\ nerr = ErrParseCert

\* C13: for every option list, the client side mirrors the Server.  With
\* TLS the URL is https://example.com and the transport trusts exactly the
\* Server's certificate; without it the URL is http://example.com and the
\* transport has no TLS configuration.  The transport tries HTTP/2 iff the
\* engine advertises "h2", which it does iff TLS is on and HTTP/2 is not
\* disabled; with HTTP/2 disabled the two sides can agree on HTTP/1.1 only.
C13_ClientMirrorsServer ==
    npc = "built" =>
        /\ srv.url = IF cfg.DisableTLS THEN "http://example.com"
                     ELSE "https://example.com"
        /\ "h2" \in ServerAccepts(tlsConfig) <=> (~cfg.DisableTLS /\ ~cfg.DisableHTTP2)
        /\ tr # NoTransport =>
              /\ tr.TLSClientConfig = IF cfg.DisableTLS THEN NoClientTLS
                                      ELSE [RootCAs |-> {ServerCert}]
              /\ tr.ForceAttemptHTTP2 <=> "h2" \in ServerAccepts(tlsConfig)
              /\ cfg.DisableHTTP2 =>
                    ClientOffers(tr) \cap ServerAccepts(tlsConfig) = {"http/1.1"}

\* Transport() has been called on a Server made with TLS and without
\* HTTP/2.
C13_Witness ==
    /\ npc = "built"
    /\ tr # NoTransport
    /\ cfg.DisableHTTP2
    /\ ~cfg.DisableTLS

\* The option list with every WithOptions replaced by its options.
RECURSIVE Flatten(_)
Flatten(os) ==
    IF os = <<>> THEN <<>>
    ELSE (IF Head(os).op = "WithOptions" THEN Head(os).opts ELSE <<Head(os)>>)
             \o Flatten(Tail(os))

\* The positions of the options made by constructor op in the list os.
Uses(op, os) == {i \in 1..Len(os) : os[i].op = op}

\* The greatest of a non-empty set of positions.
Last(S) == CHOOSE i \in S : \A j \in S : j <= i

\* The configuration that the documentation gives the option list os: a
\* flag is set iff its option occurs, a value is that of its last option,
\* and the default where there is none.
Expected(os) ==
    LET f == Flatten(os)
        ts == Uses("WithCleanupTimeout", f)
        ls == Uses("WithErrorLog", f)
    IN [DisableTLS |-> Uses("WithoutTLS", f) # {},
        DisableHTTP2 |-> Uses("WithoutHTTP2", f) # {},
        CleanupTimeout |-> IF ts = {} THEN DefaultCleanupTimeout ELSE f[Last(ts)].d,
        ErrorLog |-> IF ls = {} THEN NoLogger ELSE f[Last(ls)].l]

C15_CloseUnblocksAccepts ==
    /\ [][\A a \in AcceptCallers :
            (~closed /\ closed' /\ apc[a] = "select") => apc'[a] = "woken"]_vars
    /\ [](\A a \in AcceptCallers : apc[a] = "woken" => ENABLED AcceptSelect(a))
    /\ [][\A a \in AcceptCallers :
            (apc[a] = "woken" /\ apc'[a] # "woken") =>
                (apc'[a] = "done" /\ aret'[a] = ClosedResult)]_vars
    /\ \A a \in AcceptCallers : (apc[a] = "woken") ~> (apc[a] = "done")

\* The serve loop and another goroutine were both waiting in Accept when
\* Close ran; both have been woken and neither has returned yet.
C15_Witness ==
    /\ closeCount = 1
    /\ \A a \in AcceptCallers : apc[a] = "woken"

\* C16: serveErr is written once, by the goroutine of New when Serve has
\* returned: the channel never holds more than one value, there is never
\* more than one write and one writer, the write has happened iff the
\* goroutine has ended, and a goroutine that has the result of Serve can
\* always send it, whether or not anybody receives.
C16_ServeErrWrittenOnce ==
    /\ Len(serveErr) <= 1
    /\ serveWrites <= 1
    /\ tasks = 1
    /\ serveWrites = 1 <=> spc = "exited"
    /\ spc = "send" => ENABLED ServeSend

\* The goroutine has sent its error and ended, and nothing has received it.
C16_Witness ==
    /\ spc = "exited"
    /\ serveErr = <<serveRet>>
    /\ drains = 0

\* C17: memoryListener.Close changes only the closed signal.  In the step
\* in which a call runs it, no connection end is closed, the connections
\* that Accept and DialContext calls have returned and the engine is
\* serving stay as they are, and nothing is taken from or put into the
\* hand-off channel: a dial waiting in its send keeps waiting.
C17_CloseLeavesConnections ==
    [][(\E c \in Callers : cpc[c] = "idle" /\ cpc'[c] = "engine") =>
          /\ open' = open
          /\ conns' = conns
          /\ delivered' = delivered
          /\ active' = active
          /\ aret' = aret
          /\ UNCHANGED <<dpc, dpipe, dret>>]_vars

\* The listener was closed while the serve loop waited in Accept, and a
\* connection handed out before that is still being served, both its ends
\* open.
C17_Witness ==
    /\ closed
    /\ apc[ServeLoop] = "woken"
    /\ \E p \in active : {NetPipe(p).server, NetPipe(p).client} \subseteq open

\* C18: the ctx of DialContext plays no part.  On an open listener a call
\* goes on to its send whatever its ctx; it leaves the send only in the
\* step in which an Accept call receives its server end; cancelling the ctx
\* changes nothing in the call, the channel or the Accept calls; the only
\* error a call returns is "listener closed"; and a call that is past its
\* send has had its server end received, once.
C18_DialIgnoresContext ==
    /\ [][\A d \in Dialers :
            (dpc[d] = "idle" /\ dpc'[d] # "idle" /\ ~closed) => dpc'[d] = "send"]_vars
    /\ [][\A d \in Dialers :
            (dpc[d] = "send" /\ dpc'[d] # "send") =>
                /\ dpc'[d] = "sent"
                /\ delivered'[NetPipe(d).server] = delivered[NetPipe(d).server] + 1]_vars
    /\ [][dctx' # dctx => UNCHANGED <<lvars, dvars, avars, delivered, open>>]_vars
    /\ [](\A d \in Dialers :
            /\ dpc[d] = "done" => dret[d].err \in {ErrNil, ErrListenerClosed}
            /\ (dpc[d] \in {"sent", "done"} /\ dpipe[d] # 0) =>
                  delivered[NetPipe(d).server] = 1)

\* Every ctx is cancelled; one call has returned its connection all the
\* same, and another is still waiting in its send.
C18_Witness ==
    /\ \A d \in Dialers : dctx[d] = "cancelled"
    /\ \E d, o \in Dialers :
          /\ dpc[d] = "done" /\ dret[d] = DialResult(d)
          /\ dpc[o] = "send"

\* C19: a nil return of Close, Shutdown or Cleanup never precedes the end
\* of the serve loop.  In the step in which a call returns nil, the
\* goroutine of New has already sent its error and ended; so whenever a
\* call has returned nil, it has.
C19_NilReturnAfterServeEnds ==
    /\ [][\A c \in Callers :
            (cpc[c] # "done" /\ cpc'[c] = "done" /\ cret'[c] = ErrNil) =>
                (spc = "exited" /\ serveWrites = 1)]_vars
    /\ [](\A c \in Callers :
            (cpc[c] = "done" /\ cret[c] = ErrNil) => (spc = "exited" /\ serveWrites = 1))

\* A Shutdown call has returned nil.
C19_Witness ==
    \E c \in Callers : cpc[c] = "done" /\ ckind[c] = "Shutdown" /\ cret[c] = ErrNil

\* Calls that have received from serveErr.
Drained == {c \in Callers : cgot[c] # "none"}

\* C20: a call that returns the engine's own error leaves serveErr alone,
\* so a later Close can still drain it.  A call that got an error from the
\* engine has received nothing and returns that error; the receives so far
\* are those of the calls that went through listenErr; and a call that is
\* alone in listenErr, when no call has received yet, is not stuck: the
\* serve goroutine can take a step until it has sent its error, then the
\* call can receive it, and what it then returns is that error, or nil for
\* nil and ErrServerClosed.
C20_EngineErrorLeavesServeErr ==
    /\ drains = Cardinality(Drained)
    /\ \A c \in Callers :
          /\ (cpc[c] \in {"listenErr", "done"} /\ cerr[c] # ErrNil) =>
                (cpc[c] = "done" /\ cgot[c] = "none" /\ cret[c] = cerr[c])
          /\ (cpc[c] = "listenErr" /\ Drained = {}
                  /\ \A o \in Callers \ {c} : cpc[o] # "listenErr") =>
                /\ spc # "exited" =>
                      ENABLED (ServeBegin \/ ServeHandle \/ ServeSend
                                 \/ AcceptSelect(ServeLoop))
                /\ spc = "exited" => ENABLED ListenErr(c)
          /\ (cpc[c] = "done" /\ cgot[c] # "none") =>
                /\ cgot[c] = serveRet
                /\ cret[c] = IF serveRet \in {ErrNil, ErrServerClosed} THEN ErrNil
                             ELSE serveRet

\* A Shutdown call has returned the deadline error and a Close call has
\* received the serve error and returned nil.
C20_Witness ==
    \E o, c \in Callers :
        /\ cpc[o] = "done" /\ ckind[o] = "Shutdown" /\ cret[o] = ErrDeadline
        /\ cpc[c] = "done" /\ ckind[c] = "Close"
        /\ cgot[c] = ErrServerClosed /\ cret[c] = ErrNil
====
